---- MODULE Spec2Model ----
(***************************************************************************)
(* The three notebooks of the repository as state machines.                *)
(*                                                                         *)
(*   clip     notebooks/3_clip_and_reproject.ipynb                         *)
(*   numpy    the "Rasterio datasets and NumPy arrays" notebook            *)
(*   reading  the "Reading satellite data with rasterio" notebook          *)
(*                                                                         *)
(* A notebook is run top to bottom in a fresh kernel; one action models    *)
(* one statement of a code cell.  An exception raised by a library call    *)
(* is not caught anywhere in the notebooks, so it ends the run (the `with` *)
(* blocks it unwinds through close their handles on the way out).          *)
(*                                                                         *)
(* Raster arrays are represented by their shape <<bands, rows, columns>>;  *)
(* pixel values play no part in any statement of the notebooks that is     *)
(* modelled here.  An affine transform of a north-up raster is the record  *)
(* [a, e, c, f]: pixel width, (negative) pixel height, x and y of the      *)
(* upper-left corner.                                                      *)
(***************************************************************************)
EXTENDS Integers, Sequences, FiniteSets, TLC

\* ---------------------------------------------------------------- bounds
\* Largest number of pixel rows / columns of example.tif.
MaxDim == 2
\* Largest number of bands of example.tif.
MaxBands == 4

\* ------------------------------------------------------------- constants
\* The offset, in metres, the NumPy notebook applies to the corner.
Offset == 10000

target_crs_literal == "EPSG:4326"

\* The scene is "in a UTM projection".
SourceCRS == "EPSG:32610"

\* Pixel size of the scene used by the clip notebook (metres).
ClipPixelSizes == {3}

\* Pixel sizes (metres) of the scenes the NumPy notebook is run on; with
\* MaxDim pixels they give rasters both smaller and larger than Offset.
PixelSizes == {4000, 6000, 12000}

Origins == {[left |-> 500000, top |-> 4000000]}

HandleNames == {"satdat", "f", "img", "dst", "clipped_img", "reprojected",
                "reproj", "np_satdat", "rd_satdat"}

\* ------------------------------------------------------------ data model
NoTransform == [a |-> 0, e |-> 0, c |-> 0, f |-> 0]

NoMeta == [driver |-> "", dtype |-> "", nodata |-> 0, width |-> 0,
           height |-> 0, count |-> 0, crs |-> "", transform |-> NoTransform]

NoRaster == [exists |-> FALSE, meta |-> NoMeta, bands |-> {}]

NoHandle == [state |-> "unopened", file |-> "", mode |-> "", meta |-> NoMeta]

NoErr == [step |-> "none", exc |-> "none"]

NoShape == <<0, 0, 0>>

\* A raster file as the library stores it: its metadata and the bands that
\* hold data.
RasterFile(meta, bands) == [exists |-> TRUE, meta |-> meta, bands |-> bands]

\* The metadata of a scene of `w` columns, `h` rows and `n` bands.
SceneMeta(w, h, n, res, org) ==
    [driver |-> "GTiff", dtype |-> "uint16", nodata |-> 0,
     width |-> w, height |-> h, count |-> n, crs |-> SourceCRS,
     transform |-> [a |-> res, e |-> -res, c |-> org.left, f |-> org.top]]

\* dataset.bounds: left, bottom, right, top of the raster in world units.
Bounds(meta) ==
    [left   |-> meta.transform.c,
     bottom |-> meta.transform.f + meta.height * meta.transform.e,
     right  |-> meta.transform.c + meta.width * meta.transform.a,
     top    |-> meta.transform.f]

\* The polygons an AOI file may hold for a scene: every pixel-aligned box
\* from one pixel outside the scene on each side, so that an AOI may lie
\* inside the scene, cover it, straddle an edge or miss it altogether.
AoiBoxes(meta) ==
    LET t == meta.transform
        xs == {t.c + i * t.a : i \in -1 .. meta.width + 1}
        ys == {t.f + j * t.e : j \in -1 .. meta.height + 1}
    IN {b \in [minx : xs, maxx : xs, miny : ys, maxy : ys] :
           b.minx < b.maxx /\ b.miny < b.maxy}

VARIABLES
    rasters,      \* the raster files on disk: file name -> raster file
    vectors,      \* the vector files on disk: file name -> list of geometries
    handles,      \* every dataset handle of the notebooks: name -> handle
    pc,           \* clip notebook: the statement to run next
    err,          \* clip notebook: the uncaught exception that ended the run
    raised,       \* clip notebook: the exception the library raised
    ns,           \* clip notebook: the kernel's variables
    log,          \* clip notebook: the library calls made, in order
    maskRet,      \* clip notebook: what mask returned
    cdtRet,       \* clip notebook: what calculate_default_transform returned
    reprojCalls,  \* clip notebook: the arguments of each reproject call
    opened,       \* every <<file, mode>> a notebook passed to an open call
    npc,          \* numpy notebook: the statement to run next
    nb,           \* numpy notebook: the kernel's variables
    rpc,          \* reading notebook: the statement to run next
    rd            \* reading notebook: the kernel's variables

vars == <<rasters, vectors, handles, pc, err, raised, ns, log, maskRet,
          cdtRet, reprojCalls, opened, npc, nb, rpc, rd>>

clipVars == <<pc, err, raised, ns, log, maskRet, cdtRet, reprojCalls>>
numpyVars == <<npc, nb>>
readingVars == <<rpc, rd>>

\* ------------------------------------------------------ library routines
\* Ceiling of p / q for q > 0 (\div rounds towards minus infinity).
CeilDiv(p, q) == -((-p) \div q)

Min(x, y) == IF x < y THEN x ELSE y
Max(x, y) == IF x > y THEN x ELSE y

\* The bounding box of a non-empty list of geometries.
RECURSIVE ShapesBounds(_)
ShapesBounds(shapes) ==
    IF Len(shapes) = 1 THEN Head(shapes)
    ELSE LET r == ShapesBounds(Tail(shapes))
             s == Head(shapes)
         IN [minx |-> Min(s.minx, r.minx), maxx |-> Max(s.maxx, r.maxx),
             miny |-> Min(s.miny, r.miny), maxy |-> Max(s.maxy, r.maxy)]

\* mask(dataset, shapes, crop=True): the pixel window of the shapes'
\* bounding box, cut to the raster.
CropWindow(meta, shapes) ==
    LET t == meta.transform
        b == ShapesBounds(shapes)
        c0 == Max(0, (b.minx - t.c) \div t.a)
        c1 == Min(meta.width, CeilDiv(b.maxx - t.c, t.a))
        r0 == Max(0, (t.f - b.maxy) \div (-t.e))
        r1 == Min(meta.height, CeilDiv(t.f - b.miny, -t.e))
    IN [col_off |-> c0, row_off |-> r0, width |-> c1 - c0, height |-> r1 - r0]

\* mask raises ValueError when the shapes do not overlap the raster.
Overlaps(meta, shapes) ==
    LET w == CropWindow(meta, shapes) IN w.width > 0 /\ w.height > 0

\* mask(dataset, shapes, crop=True) returns the cropped array and the
\* transform of the crop window.
MaskResult(meta, shapes) ==
    LET w == CropWindow(meta, shapes)
        t == meta.transform
    IN [array |-> <<meta.count, w.height, w.width>>,
        transform |-> [a |-> t.a, e |-> t.e,
                       c |-> t.c + w.col_off * t.a,
                       f |-> t.f + w.row_off * t.e]]

\* calculate_default_transform(src_crs, dst_crs, width, height, *bounds):
\* the library chooses the destination grid; its size may differ from the
\* source's, and its transform is in the units of dst_crs.
DefaultTransforms(src_crs, dst_crs, width, height, bounds) ==
    {[transform |-> [a |-> 1, e |-> -1,
                     c |-> bounds.left \div 100000,
                     f |-> bounds.top \div 100000],
      width |-> width + grow, height |-> height + grow, crs |-> dst_crs] :
         grow \in {0, 1}}

\* rasterio.band(ds, bidx)
Band(ds, bidx) == [ds |-> ds, bidx |-> bidx]

\* rasterio.open(file) / rasterio.open(file, 'w', **meta) / fiona.open(file)
OpenedHandle(file, mode, meta) ==
    [state |-> "open", file |-> file, mode |-> mode, meta |-> meta]

Closed(h) == [h EXCEPT !.state = "closed"]

\* The exceptions the library raises at each kind of call.
OpenErrors == {"RasterioIOError"}
FionaErrors == {"DriverError"}
MaskErrors == {"RasterioIOError"}
WriteErrors == {"RasterioIOError"}
TransformErrors == {"CRSError"}
ReprojectErrors == {"CRSError", "RasterioIOError"}
ShowErrors == {"RasterioIOError"}

\* ------------------------------------------------- the clip notebook
NoNs == [aoi |-> <<>>, clipped |-> NoShape, transform |-> NoTransform,
         meta |-> NoMeta, target_crs |-> "", width |-> 0, height |-> 0,
         metadata |-> NoMeta, stop |-> 0, band |-> 0]

\* A statement ran to its end: the run goes on with the next statement.
Ran(step, next) ==
    /\ pc' = next
    /\ log' = Append(log, [step |-> step, ok |-> TRUE])
    /\ UNCHANGED <<err, raised>>

\* A library call raised `exc`; no cell catches it, so the run ends.
Uncaught(step, exc) ==
    /\ pc' = "aborted"
    /\ raised' = exc
    /\ err' = [step |-> step, exc |-> exc]
    /\ log' = Append(log, [step |-> step, ok |-> FALSE])

OthersIdle == UNCHANGED <<npc, nb, rpc, rd>>

NoMaskRet == [shapes |-> <<>>, array |-> NoShape, transform |-> NoTransform]

NoCdtRet == [transform |-> NoTransform, width |-> 0, height |-> 0, crs |-> ""]

\* Cell 1: satdat = rasterio.open(image_file)
OpenSatdat ==
    /\ pc = "open_satdat"
    /\ opened' = opened \cup {<<"example.tif", "r">>}
    /\ \/ /\ rasters["example.tif"].exists
          /\ handles' = [handles EXCEPT !["satdat"] =
                 OpenedHandle("example.tif", "r", rasters["example.tif"].meta)]
          /\ Ran("open_satdat", "show_satdat")
       \/ /\ \E e \in OpenErrors : Uncaught("open_satdat", e)
          /\ UNCHANGED handles
    /\ UNCHANGED <<rasters, vectors, ns, maskRet, cdtRet, reprojCalls>>
    /\ OthersIdle

\* Cell 2: show(satdat)
ShowSatdat ==
    /\ pc = "show_satdat"
    /\ \/ /\ handles["satdat"].state = "open"
          /\ Ran("show_satdat", "fiona_open")
       \/ \E e \in ShowErrors : Uncaught("show_satdat", e)
    /\ UNCHANGED <<rasters, vectors, handles, ns, maskRet, cdtRet,
                   reprojCalls, opened>>
    /\ OthersIdle

\* Cell 3: with fiona.open('aoi.geojson') as f:
FionaOpen ==
    /\ pc = "fiona_open"
    /\ opened' = opened \cup {<<"aoi.geojson", "r">>}
    /\ \/ /\ handles' = [handles EXCEPT !["f"] =
                 OpenedHandle("aoi.geojson", "r", NoMeta)]
          /\ Ran("fiona_open", "build_aoi")
       \/ /\ \E e \in FionaErrors : Uncaught("fiona_open", e)
          /\ UNCHANGED handles
    /\ UNCHANGED <<rasters, vectors, ns, maskRet, cdtRet, reprojCalls>>
    /\ OthersIdle

\* Cell 3: aoi = [feature["geometry"] for feature in f]
BuildAoi ==
    /\ pc = "build_aoi"
    /\ handles["f"].state = "open"
    /\ ns' = [ns EXCEPT !.aoi = vectors[handles["f"].file]]
    /\ Ran("build_aoi", "exit_f")
    /\ UNCHANGED <<rasters, vectors, handles, maskRet, cdtRet, reprojCalls,
                   opened>>
    /\ OthersIdle

\* Cell 3: the end of the with block closes f.
ExitF ==
    /\ pc = "exit_f"
    /\ handles' = [handles EXCEPT !["f"] = Closed(@)]
    /\ Ran("exit_f", "open_img")
    /\ UNCHANGED <<rasters, vectors, ns, maskRet, cdtRet, reprojCalls, opened>>
    /\ OthersIdle

\* OpenImg opening the source in update mode.
OpenImgUpdate ==
    /\ pc = "open_img"
    /\ opened' = opened \cup {<<"example.tif", "r+">>}
    /\ \/ /\ rasters["example.tif"].exists
          /\ handles' = [handles EXCEPT !["img"] =
                 OpenedHandle("example.tif", "r+", rasters["example.tif"].meta)]
          /\ Ran("open_img", "mask")
       \/ /\ \E e \in OpenErrors : Uncaught("open_img", e)
          /\ UNCHANGED handles
    /\ UNCHANGED <<rasters, vectors, ns, maskRet, cdtRet, reprojCalls>>
    /\ OthersIdle

\* Cell 4: with rasterio.open('example.tif') as img:
OpenImg ==
    /\ pc = "open_img"
    /\ opened' = opened \cup {<<"example.tif", "r">>}
    /\ \/ /\ rasters["example.tif"].exists
          /\ handles' = [handles EXCEPT !["img"] =
                 OpenedHandle("example.tif", "r", rasters["example.tif"].meta)]
          /\ Ran("open_img", "mask")
       \/ /\ \E e \in OpenErrors : Uncaught("open_img", e)
          /\ UNCHANGED handles
    /\ UNCHANGED <<rasters, vectors, ns, maskRet, cdtRet, reprojCalls>>
    /\ OthersIdle

\* Mask inside a try/except that swallows the exception: the run goes on.
MaskSwallowsError ==
    /\ pc = "mask"
    /\ handles["img"].state = "open"
    /\ \/ /\ Overlaps(handles["img"].meta, ns.aoi)
          /\ LET r == MaskResult(handles["img"].meta, ns.aoi)
             IN /\ maskRet' = [shapes |-> ns.aoi, array |-> r.array,
                               transform |-> r.transform]
                /\ ns' = [ns EXCEPT !.clipped = r.array,
                                    !.transform = r.transform]
          /\ Ran("mask", "exit_img")
       \/ /\ pc' = "exit_img"
          /\ log' = Append(log, [step |-> "mask", ok |-> FALSE])
          /\ \E e \in MaskErrors \cup {"ValueError"} :
                /\ raised' = e
                /\ err' = [step |-> "mask", exc |-> e]
          /\ UNCHANGED <<ns, maskRet>>
    /\ UNCHANGED <<rasters, vectors, handles, cdtRet, reprojCalls, opened>>
    /\ OthersIdle

\* Cell 4: clipped, transform = mask(img, aoi, crop=True)
\* An exception leaves the with block, which closes img.
Mask ==
    /\ pc = "mask"
    /\ handles["img"].state = "open"
    /\ \/ /\ Overlaps(handles["img"].meta, ns.aoi)
          /\ LET r == MaskResult(handles["img"].meta, ns.aoi)
             IN /\ maskRet' = [shapes |-> ns.aoi, array |-> r.array,
                               transform |-> r.transform]
                /\ ns' = [ns EXCEPT !.clipped = r.array,
                                    !.transform = r.transform]
          /\ Ran("mask", "exit_img")
          /\ UNCHANGED handles
       \/ /\ ~Overlaps(handles["img"].meta, ns.aoi)
          /\ Uncaught("mask", "ValueError")
          /\ handles' = [handles EXCEPT !["img"] = Closed(@)]
          /\ UNCHANGED <<ns, maskRet>>
       \/ /\ \E e \in MaskErrors : Uncaught("mask", e)
          /\ handles' = [handles EXCEPT !["img"] = Closed(@)]
          /\ UNCHANGED <<ns, maskRet>>
    /\ UNCHANGED <<rasters, vectors, cdtRet, reprojCalls, opened>>
    /\ OthersIdle

\* Cell 4: the end of the with block closes img.
ExitImg ==
    /\ pc = "exit_img"
    /\ handles' = [handles EXCEPT !["img"] = Closed(@)]
    /\ Ran("exit_img", "print_shape")
    /\ UNCHANGED <<rasters, vectors, ns, maskRet, cdtRet, reprojCalls, opened>>
    /\ OthersIdle

\* Cell 4: print(clipped.shape)
PrintShape ==
    /\ pc = "print_shape"
    /\ Ran("print_shape", "meta_copy")
    /\ UNCHANGED <<rasters, vectors, handles, ns, maskRet, cdtRet,
                   reprojCalls, opened>>
    /\ OthersIdle

\* Cell 5: meta = img.meta.copy()
\* img is closed by now: the library either still serves the metadata it
\* read at open, or refuses a closed dataset.
MetaCopy ==
    /\ pc = "meta_copy"
    /\ \/ /\ ns' = [ns EXCEPT !.meta = handles["img"].meta]
          /\ Ran("meta_copy", "meta_update")
       \/ /\ handles["img"].state = "closed"
          /\ Uncaught("meta_copy", "RasterioIOError")
          /\ UNCHANGED ns
    /\ UNCHANGED <<rasters, vectors, handles, maskRet, cdtRet, reprojCalls,
                   opened>>
    /\ OthersIdle

\* ClippedMeta with the transform left out of the update.
ClippedMetaKeepsTransform(meta, transform, clipped) ==
    [meta EXCEPT !.height = clipped[2],
                 !.width = clipped[3]]

\* meta.update({"transform": transform, "height": clipped.shape[1],
\*              "width": clipped.shape[2]})
ClippedMeta(meta, transform, clipped) ==
    [meta EXCEPT !.transform = transform,
                 !.height = clipped[2],
                 !.width = clipped[3]]

\* Cell 5: meta.update(...)
MetaUpdate ==
    /\ pc = "meta_update"
    /\ ns' = [ns EXCEPT !.meta = ClippedMeta(ns.meta, ns.transform, ns.clipped)]
    /\ Ran("meta_update", "open_dst")
    /\ UNCHANGED <<rasters, vectors, handles, maskRet, cdtRet, reprojCalls,
                   opened>>
    /\ OthersIdle

\* Cell 5: with rasterio.open('clipped.tif', 'w', **meta) as dst:
OpenDst ==
    /\ pc = "open_dst"
    /\ opened' = opened \cup {<<"clipped.tif", "w">>}
    /\ \/ /\ handles' = [handles EXCEPT !["dst"] =
                 OpenedHandle("clipped.tif", "w", ns.meta)]
          /\ rasters' = [rasters EXCEPT !["clipped.tif"] =
                 RasterFile(ns.meta, {})]
          /\ Ran("open_dst", "write_clipped")
       \/ /\ \E e \in OpenErrors : Uncaught("open_dst", e)
          /\ UNCHANGED <<handles, rasters>>
    /\ UNCHANGED <<vectors, ns, maskRet, cdtRet, reprojCalls>>
    /\ OthersIdle

\* Cell 5: dst.write(clipped) writes every band of the array.
\* An exception leaves the with block, which closes dst.
DstWrite ==
    /\ pc = "write_clipped"
    /\ handles["dst"].state = "open"
    /\ \/ /\ rasters' = [rasters EXCEPT ![handles["dst"].file].bands =
                 1 .. ns.clipped[1]]
          /\ Ran("write_clipped", "exit_dst")
          /\ UNCHANGED handles
       \/ /\ \E e \in WriteErrors : Uncaught("write_clipped", e)
          /\ handles' = [handles EXCEPT !["dst"] = Closed(@)]
          /\ UNCHANGED rasters
    /\ UNCHANGED <<vectors, ns, maskRet, cdtRet, reprojCalls, opened>>
    /\ OthersIdle

\* ExitDst as it would be had clipped.tif been opened without a with
\* block: the write handle stays open.
ExitDstLeavesOpen ==
    /\ pc = "exit_dst"
    /\ Ran("exit_dst", "open_clipped_img")
    /\ UNCHANGED <<rasters, vectors, handles, ns, maskRet, cdtRet,
                   reprojCalls, opened>>
    /\ OthersIdle

\* Cell 5: the end of the with block closes dst.
ExitDst ==
    /\ pc = "exit_dst"
    /\ handles' = [handles EXCEPT !["dst"] = Closed(@)]
    /\ Ran("exit_dst", "open_clipped_img")
    /\ UNCHANGED <<rasters, vectors, ns, maskRet, cdtRet, reprojCalls, opened>>
    /\ OthersIdle

\* Cell 6: clipped_img = rasterio.open("clipped.tif")
OpenClippedImg ==
    /\ pc = "open_clipped_img"
    /\ opened' = opened \cup {<<"clipped.tif", "r">>}
    /\ \/ /\ rasters["clipped.tif"].exists
          /\ handles' = [handles EXCEPT !["clipped_img"] =
                 OpenedHandle("clipped.tif", "r", rasters["clipped.tif"].meta)]
          /\ Ran("open_clipped_img", "show_clipped_img")
       \/ /\ \E e \in OpenErrors : Uncaught("open_clipped_img", e)
          /\ UNCHANGED handles
    /\ UNCHANGED <<rasters, vectors, ns, maskRet, cdtRet, reprojCalls>>
    /\ OthersIdle

\* Cell 6: show(clipped_img)
ShowClippedImg ==
    /\ pc = "show_clipped_img"
    /\ \/ /\ handles["clipped_img"].state = "open"
          /\ Ran("show_clipped_img", "target_crs")
       \/ \E e \in ShowErrors : Uncaught("show_clipped_img", e)
    /\ UNCHANGED <<rasters, vectors, handles, ns, maskRet, cdtRet,
                   reprojCalls, opened>>
    /\ OthersIdle

\* Cell 7: target_crs = 'EPSG:4326'
SetTargetCrs ==
    /\ pc = "target_crs"
    /\ ns' = [ns EXCEPT !.target_crs = target_crs_literal]
    /\ Ran("target_crs", "calc_transform")
    /\ UNCHANGED <<rasters, vectors, handles, maskRet, cdtRet, reprojCalls,
                   opened>>
    /\ OthersIdle

\* Cell 8: transform, width, height = calculate_default_transform(
\*     clipped_img.crs, target_crs, clipped_img.width, clipped_img.height,
\*     *clipped_img.bounds)
CalculateDefaultTransform ==
    /\ pc = "calc_transform"
    /\ handles["clipped_img"].state = "open"
    /\ \/ /\ \E r \in DefaultTransforms(handles["clipped_img"].meta.crs,
                                        ns.target_crs,
                                        handles["clipped_img"].meta.width,
                                        handles["clipped_img"].meta.height,
                                        Bounds(handles["clipped_img"].meta)) :
                /\ cdtRet' = r
                /\ ns' = [ns EXCEPT !.transform = r.transform,
                                    !.width = r.width,
                                    !.height = r.height]
          /\ Ran("calc_transform", "metadata_copy")
       \/ /\ \E e \in TransformErrors : Uncaught("calc_transform", e)
          /\ UNCHANGED <<ns, cdtRet>>
    /\ UNCHANGED <<rasters, vectors, handles, maskRet, reprojCalls, opened>>
    /\ OthersIdle

\* Cell 9: metadata = clipped_img.meta.copy()
MetadataCopy ==
    /\ pc = "metadata_copy"
    /\ handles["clipped_img"].state = "open"
    /\ ns' = [ns EXCEPT !.metadata = handles["clipped_img"].meta]
    /\ Ran("metadata_copy", "metadata_update")
    /\ UNCHANGED <<rasters, vectors, handles, maskRet, cdtRet, reprojCalls,
                   opened>>
    /\ OthersIdle

\* metadata.update({'crs': target_crs, 'transform': transform,
\*                  'width': width, 'height': height})
ReprojectedMeta(metadata, target_crs, transform, width, height) ==
    [metadata EXCEPT !.crs = target_crs,
                     !.transform = transform,
                     !.width = width,
                     !.height = height]

\* Cell 9: metadata.update(...)
MetadataUpdate ==
    /\ pc = "metadata_update"
    /\ ns' = [ns EXCEPT !.metadata =
           ReprojectedMeta(ns.metadata, ns.target_crs, ns.transform,
                           ns.width, ns.height)]
    /\ Ran("metadata_update", "open_reprojected")
    /\ UNCHANGED <<rasters, vectors, handles, maskRet, cdtRet, reprojCalls,
                   opened>>
    /\ OthersIdle

\* Cell 10: with rasterio.open('clipped_4326.tif', 'w', **metadata)
\*              as reprojected:
OpenReprojected ==
    /\ pc = "open_reprojected"
    /\ opened' = opened \cup {<<"clipped_4326.tif", "w">>}
    /\ \/ /\ handles' = [handles EXCEPT !["reprojected"] =
                 OpenedHandle("clipped_4326.tif", "w", ns.metadata)]
          /\ rasters' = [rasters EXCEPT !["clipped_4326.tif"] =
                 RasterFile(ns.metadata, {})]
          /\ Ran("open_reprojected", "for_range")
       \/ /\ \E e \in OpenErrors : Uncaught("open_reprojected", e)
          /\ UNCHANGED <<handles, rasters>>
    /\ UNCHANGED <<vectors, ns, maskRet, cdtRet, reprojCalls>>
    /\ OthersIdle

\* BandRange as range(1, clipped_img.count): the last band is left out.
BandRangeShort(count) == [start |-> 1, stop |-> count]

\* range(1, clipped_img.count + 1): the first band index and the stop.
BandRange(count) == [start |-> 1, stop |-> count + 1]

\* Cell 10: for band in range(1, clipped_img.count + 1):
\* the range is evaluated once, when the loop is entered.
ForRange ==
    /\ pc = "for_range"
    /\ LET r == BandRange(handles["clipped_img"].meta.count)
       IN ns' = [ns EXCEPT !.stop = r.stop, !.band = r.start - 1]
    /\ Ran("for_range", "for_next")
    /\ UNCHANGED <<rasters, vectors, handles, maskRet, cdtRet, reprojCalls,
                   opened>>
    /\ OthersIdle

\* Cell 10: the loop takes the next band index, or ends.
ForNext ==
    /\ pc = "for_next"
    /\ \/ /\ ns.band + 1 < ns.stop
          /\ ns' = [ns EXCEPT !.band = ns.band + 1]
          /\ pc' = "reproject"
       \/ /\ ns.band + 1 >= ns.stop
          /\ pc' = "exit_reprojected"
          /\ UNCHANGED ns
    /\ UNCHANGED <<rasters, vectors, handles, err, raised, log, maskRet,
                   cdtRet, reprojCalls, opened>>
    /\ OthersIdle

\* ReprojectArgs passing the source's transform as the destination's.
ReprojectArgsSourceTransform(band, transform, target_crs, src) ==
    [source |-> Band("clipped_img", band),
     destination |-> Band("reprojected", band),
     src_transform |-> src.transform,
     src_crs |-> src.crs,
     dst_transform |-> src.transform,
     dst_crs |-> target_crs]

\* The arguments of the reproject call of the loop body.
ReprojectArgs(band, transform, target_crs, src) ==
    [source |-> Band("clipped_img", band),
     destination |-> Band("reprojected", band),
     src_transform |-> src.transform,
     src_crs |-> src.crs,
     dst_transform |-> transform,
     dst_crs |-> target_crs]

\* Cell 10: reproject(source=rasterio.band(clipped_img, band),
\*                    destination=rasterio.band(reprojected, band), ...)
\* fills the destination band of the file behind the destination handle.
\* An exception leaves the with block, which closes reprojected.
Reproject ==
    /\ pc = "reproject"
    /\ LET args == ReprojectArgs(ns.band, ns.transform, ns.target_crs,
                                 handles["clipped_img"].meta)
           d == handles[args.destination.ds]
       IN \/ /\ handles[args.source.ds].state = "open"
             /\ d.state = "open"
             /\ rasters' = [rasters EXCEPT ![d.file].bands =
                    @ \cup {args.destination.bidx}]
             /\ reprojCalls' = Append(reprojCalls, args)
             /\ Ran("reproject", "for_next")
             /\ UNCHANGED handles
          \/ /\ \E e \in ReprojectErrors : Uncaught("reproject", e)
             /\ handles' = [handles EXCEPT !["reprojected"] = Closed(@)]
             /\ UNCHANGED <<rasters, reprojCalls>>
    /\ UNCHANGED <<vectors, ns, maskRet, cdtRet, opened>>
    /\ OthersIdle

\* Cell 10: the end of the with block closes reprojected.
ExitReprojected ==
    /\ pc = "exit_reprojected"
    /\ handles' = [handles EXCEPT !["reprojected"] = Closed(@)]
    /\ Ran("exit_reprojected", "open_reproj")
    /\ UNCHANGED <<rasters, vectors, ns, maskRet, cdtRet, reprojCalls, opened>>
    /\ OthersIdle

\* Cell 11: reproj = rasterio.open("clipped_4326.tif")
OpenReproj ==
    /\ pc = "open_reproj"
    /\ opened' = opened \cup {<<"clipped_4326.tif", "r">>}
    /\ \/ /\ rasters["clipped_4326.tif"].exists
          /\ handles' = [handles EXCEPT !["reproj"] =
                 OpenedHandle("clipped_4326.tif", "r",
                              rasters["clipped_4326.tif"].meta)]
          /\ Ran("open_reproj", "show_reproj")
       \/ /\ \E e \in OpenErrors : Uncaught("open_reproj", e)
          /\ UNCHANGED handles
    /\ UNCHANGED <<rasters, vectors, ns, maskRet, cdtRet, reprojCalls>>
    /\ OthersIdle

\* Cell 11: show(reproj); the last statement of the notebook.
ShowReproj ==
    /\ pc = "show_reproj"
    /\ \/ /\ handles["reproj"].state = "open"
          /\ Ran("show_reproj", "done")
       \/ \E e \in ShowErrors : Uncaught("show_reproj", e)
    /\ UNCHANGED <<rasters, vectors, handles, ns, maskRet, cdtRet,
                   reprojCalls, opened>>
    /\ OthersIdle

\* The raster and the handles every notebook starts from: example.tif
\* exists, no other raster does, no handle is open.
InitFiles(sizes) ==
    /\ \E w \in 1 .. MaxDim, h \in 1 .. MaxDim, n \in 1 .. MaxBands,
          res \in sizes, org \in Origins :
          rasters = [file \in {"example.tif", "clipped.tif",
                               "clipped_4326.tif"} |->
                        IF file = "example.tif"
                        THEN RasterFile(SceneMeta(w, h, n, res, org), 1 .. n)
                        ELSE NoRaster]
    /\ handles = [name \in HandleNames |-> NoHandle]
    /\ opened = {}

\* aoi.geojson holds one polygon, one of `boxes`.
InitAoi(boxes) ==
    \E box \in boxes : vectors = [file \in {"aoi.geojson"} |-> <<box>>]

\* The AOI that is exactly the scene's extent.
SceneBox(meta) ==
    LET b == Bounds(meta)
    IN {[minx |-> b.left, maxx |-> b.right, miny |-> b.bottom, maxy |-> b.top]}

InitClipIdle ==
    /\ pc = "open_satdat"
    /\ err = NoErr
    /\ raised = "none"
    /\ ns = NoNs
    /\ log = <<>>
    /\ maskRet = NoMaskRet
    /\ cdtRet = NoCdtRet
    /\ reprojCalls = <<>>

NoNb == [bands |-> <<>>, indexes |-> <<>>, bidx |-> 0, data |-> <<>>,
         x_coord |-> 0, y_coord |-> 0, col |-> 0, row |-> 0,
         sampled |-> <<>>, err |-> NoErr]

NoRd == [bands |-> <<>>, w |-> 0, h |-> 0, printed |-> <<>>, err |-> NoErr]

InitOthersIdle ==
    /\ npc = "open_satdat"
    /\ nb = NoNb
    /\ rpc = "open_satdat"
    /\ rd = NoRd

InitClip ==
    /\ InitFiles(ClipPixelSizes)
    /\ InitAoi(AoiBoxes(rasters["example.tif"].meta))
    /\ InitClipIdle
    /\ InitOthersIdle

NextClip ==
    \/ OpenSatdat \/ ShowSatdat \/ FionaOpen \/ BuildAoi \/ ExitF
    \/ OpenImg \/ Mask \/ ExitImg \/ PrintShape
    \/ MetaCopy \/ MetaUpdate \/ OpenDst \/ DstWrite \/ ExitDst
    \/ OpenClippedImg \/ ShowClippedImg \/ SetTargetCrs
    \/ CalculateDefaultTransform \/ MetadataCopy \/ MetadataUpdate
    \/ OpenReprojected \/ ForRange \/ ForNext \/ Reproject
    \/ ExitReprojected \/ OpenReproj \/ ShowReproj

SpecClip == InitClip /\ [][NextClip]_vars

\* ------------------------------------------------- the NumPy notebook
\* dataset.read(): the whole dataset as one array.
Read(meta) == <<meta.count, meta.height, meta.width>>

\* dataset.read(bidx): one band as a two-dimensional array.
ReadBand(meta, bidx) == <<meta.height, meta.width>>

\* dataset.indexes: the band indexes, counted from one.
Indexes(meta) == [i \in 1 .. meta.count |-> i]

\* Iterating a three-dimensional array yields its two-dimensional bands.
BandsOf(array) == [i \in 1 .. array[1] |-> <<array[2], array[3]>>]

\* dataset.index(x, y, op=math.floor) returns (row, col).
Index(meta, x, y) ==
    LET t == meta.transform
    IN <<(t.f - y) \div (-t.e), (x - t.c) \div t.a>>

\* Indexing a two-dimensional array: a negative index counts from the
\* end, an index outside the array raises IndexError.
InRange(i, n) == -n <= i /\ i < n
Wrap(i, n) == IF i < 0 THEN i + n ELSE i

NbRan(next) == npc' = next

NbUncaught(step, exc) ==
    /\ npc' = "aborted"
    /\ nb' = [nb EXCEPT !.err = [step |-> step, exc |-> exc]]

NbFrame == UNCHANGED <<rasters, vectors, pc, err, raised, ns, log, maskRet,
                       cdtRet, reprojCalls, rpc, rd>>

\* satdat = rasterio.open("example.tif")
NbOpenSatdat ==
    /\ npc = "open_satdat"
    /\ opened' = opened \cup {<<"example.tif", "r">>}
    /\ \/ /\ rasters["example.tif"].exists
          /\ handles' = [handles EXCEPT !["np_satdat"] =
                 OpenedHandle("example.tif", "r", rasters["example.tif"].meta)]
          /\ NbRan("unpack")
          /\ UNCHANGED nb
       \/ /\ \E e \in OpenErrors : NbUncaught("open_satdat", e)
          /\ UNCHANGED handles
    /\ NbFrame

\* blue, green, red, nir = satdat.read()
NbUnpack ==
    /\ npc = "unpack"
    /\ LET array == Read(handles["np_satdat"].meta)
       IN \/ /\ Len(BandsOf(array)) = 4
             /\ nb' = [nb EXCEPT !.bands = BandsOf(array)]
             /\ NbRan("print_type")
          \/ /\ Len(BandsOf(array)) # 4
             /\ NbUncaught("unpack", "ValueError")
    /\ UNCHANGED <<handles, opened>>
    /\ NbFrame

\* print(type(blue))
NbPrintType ==
    /\ npc = "print_type"
    /\ NbRan("print_ndim")
    /\ UNCHANGED <<handles, opened, nb>>
    /\ NbFrame

\* print(blue.ndim)
NbPrintNdim ==
    /\ npc = "print_ndim"
    /\ NbRan("print_dtype")
    /\ UNCHANGED <<handles, opened, nb>>
    /\ NbFrame

\* print(blue.dtype)
NbPrintDtype ==
    /\ npc = "print_dtype"
    /\ NbRan("for_indexes")
    /\ UNCHANGED <<handles, opened, nb>>
    /\ NbFrame

\* for bidx in satdat.indexes:
NbForIndexes ==
    /\ npc = "for_indexes"
    /\ nb' = [nb EXCEPT !.indexes = Indexes(handles["np_satdat"].meta)]
    /\ NbRan("for_next")
    /\ UNCHANGED <<handles, opened>>
    /\ NbFrame

\* The loop takes the next band index, or ends.
NbForNext ==
    /\ npc = "for_next"
    /\ \/ /\ nb.indexes # <<>>
          /\ nb' = [nb EXCEPT !.bidx = Head(nb.indexes),
                              !.indexes = Tail(nb.indexes)]
          /\ NbRan("read_band")
       \/ /\ nb.indexes = <<>>
          /\ NbRan("read_all")
          /\ UNCHANGED nb
    /\ UNCHANGED <<handles, opened>>
    /\ NbFrame

\* data = satdat.read(bidx); print("Band ... min ... max ...")
NbReadBand ==
    /\ npc = "read_band"
    /\ nb' = [nb EXCEPT !.data = ReadBand(handles["np_satdat"].meta, nb.bidx)]
    /\ NbRan("for_next")
    /\ UNCHANGED <<handles, opened>>
    /\ NbFrame

\* data = satdat.read(); print("Overall min/max: ...")
NbReadAll ==
    /\ npc = "read_all"
    /\ nb' = [nb EXCEPT !.data = Read(handles["np_satdat"].meta)]
    /\ NbRan("coords")
    /\ UNCHANGED <<handles, opened>>
    /\ NbFrame

\* x_coord = satdat.bounds.left - 10000
XCoord(bounds) == bounds.left - Offset

\* y_coord = satdat.bounds.top + 10000
YCoord(bounds) == bounds.top + Offset

NbCoords ==
    /\ npc = "coords"
    /\ nb' = [nb EXCEPT !.x_coord = XCoord(Bounds(handles["np_satdat"].meta)),
                        !.y_coord = YCoord(Bounds(handles["np_satdat"].meta))]
    /\ NbRan("index")
    /\ UNCHANGED <<handles, opened>>
    /\ NbFrame

\* col, row = satdat.index(x_coord, y_coord, op=math.floor)
\* col = int(col); row = int(row)
\* The first value returned is the row and is bound to col.
NbIndex ==
    /\ npc = "index"
    /\ LET rc == Index(handles["np_satdat"].meta, nb.x_coord, nb.y_coord)
       IN nb' = [nb EXCEPT !.col = rc[1], !.row = rc[2]]
    /\ NbRan("print_pixel")
    /\ UNCHANGED <<handles, opened>>
    /\ NbFrame

\* print("Red: {}".format(red[row, col])) and the three prints after it:
\* the four bands have one shape, so the first print raises or none does.
NbPrintPixel ==
    /\ npc = "print_pixel"
    /\ LET shape == nb.bands[3]
       IN \/ /\ InRange(nb.row, shape[1]) /\ InRange(nb.col, shape[2])
             /\ nb' = [nb EXCEPT !.sampled =
                    <<Wrap(nb.row, shape[1]), Wrap(nb.col, shape[2])>>]
             /\ NbRan("done")
          \/ /\ ~(InRange(nb.row, shape[1]) /\ InRange(nb.col, shape[2]))
             /\ NbUncaught("print_pixel", "IndexError")
    /\ UNCHANGED <<handles, opened>>
    /\ NbFrame

InitNumpy ==
    /\ InitFiles(PixelSizes)
    /\ InitAoi(SceneBox(rasters["example.tif"].meta))
    /\ InitClipIdle
    /\ InitOthersIdle

NextNumpy ==
    \/ NbOpenSatdat \/ NbUnpack \/ NbPrintType \/ NbPrintNdim \/ NbPrintDtype
    \/ NbForIndexes \/ NbForNext \/ NbReadBand \/ NbReadAll
    \/ NbCoords \/ NbIndex \/ NbPrintPixel

SpecNumpy == InitNumpy /\ [][NextNumpy]_vars

\* ------------------------------------------------ the reading notebook
RdRan(next) == rpc' = next

RdUncaught(step, exc) ==
    /\ rpc' = "aborted"
    /\ rd' = [rd EXCEPT !.err = [step |-> step, exc |-> exc]]

RdFrame == UNCHANGED <<rasters, vectors, pc, err, raised, ns, log, maskRet,
                       cdtRet, reprojCalls, npc, nb>>

\* satdat = rasterio.open(image_file)
RdOpenSatdat ==
    /\ rpc = "open_satdat"
    /\ opened' = opened \cup {<<"example.tif", "r">>}
    /\ \/ /\ rasters["example.tif"].exists
          /\ handles' = [handles EXCEPT !["rd_satdat"] =
                 OpenedHandle("example.tif", "r", rasters["example.tif"].meta)]
          /\ RdRan("print_info")
          /\ UNCHANGED rd
       \/ /\ \E e \in OpenErrors : RdUncaught("open_satdat", e)
          /\ UNCHANGED handles
    /\ RdFrame

\* print(satdat); print(satdat.name); print(satdat.count)
RdPrintInfo ==
    /\ rpc = "print_info"
    /\ RdRan("print_indexes")
    /\ UNCHANGED <<handles, opened, rd>>
    /\ RdFrame

\* print(satdat.count); print(satdat.indexes)
RdPrintIndexes ==
    /\ rpc = "print_indexes"
    /\ RdRan("unpack")
    /\ UNCHANGED <<handles, opened, rd>>
    /\ RdFrame

\* blue, green, red, nir = satdat.read()
RdUnpack ==
    /\ rpc = "unpack"
    /\ LET array == Read(handles["rd_satdat"].meta)
       IN \/ /\ Len(BandsOf(array)) = 4
             /\ rd' = [rd EXCEPT !.bands = BandsOf(array)]
             /\ RdRan("print_dtype")
          \/ /\ Len(BandsOf(array)) # 4
             /\ RdUncaught("unpack", "ValueError")
    /\ UNCHANGED <<handles, opened>>
    /\ RdFrame

\* print(blue.dtype)
RdPrintDtype ==
    /\ rpc = "print_dtype"
    /\ RdRan("width_height")
    /\ UNCHANGED <<handles, opened, rd>>
    /\ RdFrame

\* w = blue.shape[0]; h = blue.shape[1]   (shape is zero-indexed)
WidthHeight(blue) == [w |-> blue[1], h |-> blue[2]]

RdWidthHeight ==
    /\ rpc = "width_height"
    /\ LET wh == WidthHeight(rd.bands[1])
       IN rd' = [rd EXCEPT !.w = wh.w, !.h = wh.h]
    /\ RdRan("print_width_height")
    /\ UNCHANGED <<handles, opened>>
    /\ RdFrame

\* print("width: {w}, height: {h}".format(w=w, h=h))
RdPrintWidthHeight ==
    /\ rpc = "print_width_height"
    /\ rd' = [rd EXCEPT !.printed = <<[width |-> rd.w, height |-> rd.h]>>]
    /\ RdRan("done")
    /\ UNCHANGED <<handles, opened>>
    /\ RdFrame

InitReading ==
    /\ InitFiles(PixelSizes)
    /\ InitAoi(SceneBox(rasters["example.tif"].meta))
    /\ InitClipIdle
    /\ InitOthersIdle

NextReading ==
    \/ RdOpenSatdat \/ RdPrintInfo \/ RdPrintIndexes \/ RdUnpack
    \/ RdPrintDtype \/ RdWidthHeight \/ RdPrintWidthHeight

SpecReading == InitReading /\ [][NextReading]_vars

\* ------------------------------------------------------------- claims
IsPrefix(s, t) == Len(s) <= Len(t) /\ SubSeq(t, 1, Len(s)) = s

\* The steps of `l` that ran to their end, by name.
RECURSIVE Completed(_)
Completed(l) ==
    IF l = <<>> THEN <<>>
    ELSE IF Head(l).ok THEN <<Head(l).step>> \o Completed(Tail(l))
         ELSE Completed(Tail(l))

\* How many times step `name` was attempted in `l`.
RECURSIVE Attempts(_, _)
Attempts(l, name) ==
    IF l = <<>> THEN 0
    ELSE (IF Head(l).step = name THEN 1 ELSE 0) + Attempts(Tail(l), name)

IsPipelineStep(name) ==
    name \in {"open_img", "mask", "open_dst", "write_clipped", "exit_dst",
              "open_clipped_img", "calc_transform", "open_reprojected",
              "reproject", "exit_reprojected"}

\* The steps of the pipeline for a source of `n` bands, in the order of
\* the notebook: reproject runs once per band.
PipelineOrder(n) ==
    <<"open_img", "mask", "open_dst", "write_clipped", "exit_dst",
      "open_clipped_img", "calc_transform", "open_reprojected">>
    \o [i \in 1 .. n |-> "reproject"] \o <<"exit_reprojected">>

SourceMeta == rasters["example.tif"].meta

\* A raster file holds all its bands and no handle is writing it.
Complete(file) ==
    /\ rasters[file].exists
    /\ rasters[file].bands = 1 .. rasters[file].meta.count
    /\ \A name \in HandleNames :
          ~(handles[name].state = "open" /\ handles[name].file = file
            /\ handles[name].mode = "w")

\* C1: the pipeline steps that have run are always an initial part of
\* open example.tif, mask, write clipped.tif (open, write, close), reopen
\* clipped.tif, calculate_default_transform, reproject (once per band),
\* close clipped_4326.tif, and a run that reaches the end has run all of
\* them; clipped.tif is never open for reading while its write handle is
\* open, and calculate_default_transform and reproject have run only when
\* clipped.tif is completely written.
C1_PipelineOrder ==
    LET done == SelectSeq(Completed(log), IsPipelineStep)
    IN /\ IsPrefix(done, PipelineOrder(SourceMeta.count))
       /\ pc = "done" => done = PipelineOrder(SourceMeta.count)
       /\ handles["clipped_img"].state = "open"
             => handles["dst"].state = "closed"
       /\ (\E i \in 1 .. Len(done) :
               done[i] \in {"calc_transform", "reproject"})
             => Complete("clipped.tif")

\* C1 witness: a run that reached the end of the notebook after
\* reprojecting several bands.
C1_Witness == pc = "done" /\ Len(reprojCalls) >= 2

\* The metadata clipped.tif was written with, when it has been written.
ClippedWritten == handles["dst"].state # "unopened"

\* C2 (as amended): clipped.tif is written with the source's metadata in
\* which exactly the keys transform, height and width have been
\* overwritten, by the transform mask returned and by clipped.shape[1] and
\* clipped.shape[2]; every other key is the source's.  The values written
\* may coincide with the source's.
C2_ClippedMeta ==
    ClippedWritten =>
        /\ handles["dst"].meta =
               [SourceMeta EXCEPT !.transform = maskRet.transform,
                                  !.height = maskRet.array[2],
                                  !.width = maskRet.array[3]]
        /\ rasters["clipped.tif"].meta = handles["dst"].meta
        /\ \A key \in {"driver", "count", "dtype", "nodata", "crs"} :
               handles["dst"].meta[key] = SourceMeta[key]

\* C2 witness: clipped.tif written for an AOI whose crop window starts
\* away from the corner and is smaller than the scene.
C2_Witness ==
    /\ ClippedWritten
    /\ Complete("clipped.tif")
    /\ handles["dst"].meta.transform # SourceMeta.transform
    /\ handles["dst"].meta.width < SourceMeta.width
    /\ handles["dst"].meta.height < SourceMeta.height

\* C2 as stated: besides the above, the metadata written differs from the
\* source's in each of the three keys, and the transform written is never
\* the source's transform.
C2_Original ==
    ClippedWritten =>
        /\ C2_ClippedMeta
        /\ handles["dst"].meta.transform # SourceMeta.transform
        /\ handles["dst"].meta.height # SourceMeta.height
        /\ handles["dst"].meta.width # SourceMeta.width

\* The metadata clipped_4326.tif was written with, when it has been.
ReprojectedWritten == handles["reprojected"].state # "unopened"

\* C3: clipped_4326.tif is written with crs 'EPSG:4326' and with the
\* transform, width and height calculate_default_transform returned for
\* the clipped dataset; its other keys are those of clipped.tif; every
\* reproject call is passed that transform and that crs as dst_transform
\* and dst_crs.
C3_ReprojectedMeta ==
    ReprojectedWritten =>
        LET m == handles["reprojected"].meta
        IN /\ m.crs = "EPSG:4326"
           /\ cdtRet \in DefaultTransforms(
                  rasters["clipped.tif"].meta.crs, "EPSG:4326",
                  rasters["clipped.tif"].meta.width,
                  rasters["clipped.tif"].meta.height,
                  Bounds(rasters["clipped.tif"].meta))
           /\ m.transform = cdtRet.transform
           /\ m.width = cdtRet.width
           /\ m.height = cdtRet.height
           /\ \A key \in {"driver", "count", "dtype", "nodata"} :
                  m[key] = rasters["clipped.tif"].meta[key]
           /\ rasters["clipped_4326.tif"].meta = m
           /\ \A i \in 1 .. Len(reprojCalls) :
                  /\ reprojCalls[i].dst_transform = m.transform
                  /\ reprojCalls[i].dst_crs = m.crs

\* C3 witness: several bands reprojected into a grid whose size differs
\* from the clipped dataset's.
C3_Witness ==
    /\ ReprojectedWritten
    /\ Len(reprojCalls) >= 2
    /\ cdtRet.width # rasters["clipped.tif"].meta.width
    /\ cdtRet.height # rasters["clipped.tif"].meta.height

\* C4: when the last cell has run no dataset handle is open.
C4_NoHandleLeftOpen ==
    pc = "done" => \A name \in HandleNames : handles[name].state # "open"

\* The steps that come before clipped.tif is opened for writing.
BeforeOpenDst ==
    {"open_satdat", "show_satdat", "fiona_open", "build_aoi", "exit_f",
     "open_img", "mask", "exit_img", "print_shape", "meta_copy",
     "meta_update"}

\* The steps that come before clipped_4326.tif is opened for writing.
BeforeOpenReprojected ==
    BeforeOpenDst \cup
    {"open_dst", "write_clipped", "exit_dst", "open_clipped_img",
     "show_clipped_img", "target_crs", "calc_transform", "metadata_copy",
     "metadata_update"}

\* What holds in every state of a run with respect to a raised exception.
C5_State ==
    /\ (err # NoErr) <=> (pc = "aborted")
    /\ err # NoErr =>
          /\ err.exc = raised
          /\ log[Len(log)] = [step |-> err.step, ok |-> FALSE]
    /\ \A i \in 1 .. Len(log) : ~log[i].ok => i = Len(log) /\ err # NoErr
    /\ \A i, j \in 1 .. Len(log) :
          (i < j /\ log[i].step = log[j].step) => log[i].step = "reproject"
    /\ Attempts(log, "reproject") <= SourceMeta.count
    /\ err.step \in BeforeOpenDst =>
          <<"clipped.tif", "w">> \notin opened
    /\ err.step \in BeforeOpenDst \cup {"open_dst"} =>
          ~rasters["clipped.tif"].exists
    /\ err.step \in BeforeOpenReprojected =>
          <<"clipped_4326.tif", "w">> \notin opened
    /\ err.step \in BeforeOpenReprojected \cup {"open_reprojected"} =>
          ~rasters["clipped_4326.tif"].exists

\* C5: an exception raised by a library call ends the run with that very
\* exception: the failing call is the last one made and is made once, no
\* statement runs after it and nothing changes any more; when a step
\* before the opening of clipped.tif fails (mask among them) clipped.tif
\* is never opened for writing and does not exist, and when a step before
\* the opening of clipped_4326.tif fails (the writing of clipped.tif among
\* them) clipped_4326.tif is never opened for writing and does not exist.
C5_ErrorsEndTheRun ==
    /\ [](C5_State)
    /\ [][pc = "aborted" => UNCHANGED vars]_vars

\* C5 witness: the writing of clipped.tif raised.
C5_Witness ==
    /\ pc = "aborted"
    /\ err.step = "write_clipped"
    /\ rasters["clipped.tif"].exists

\* What holds of the files opened and of the AOI in every state.
C6_State ==
    /\ opened \subseteq {<<"example.tif", "r">>, <<"aoi.geojson", "r">>,
                         <<"clipped.tif", "w">>, <<"clipped.tif", "r">>,
                         <<"clipped_4326.tif", "w">>,
                         <<"clipped_4326.tif", "r">>}
    /\ \A name \in HandleNames :
          handles[name].file \in {"example.tif", "aoi.geojson"}
             => handles[name].mode = "r"
    /\ Attempts(log, "build_aoi") <= 1
    /\ Attempts(log, "mask") <= 1
    /\ maskRet # NoMaskRet =>
          /\ maskRet.shapes = vectors["aoi.geojson"]
          /\ ns.aoi = vectors["aoi.geojson"]
    /\ rasters["example.tif"] = RasterFile(SourceMeta, 1 .. SourceMeta.count)

\* C6: example.tif and aoi.geojson are opened in read mode only and never
\* change; the AOI list is built once, from aoi.geojson, and is what the
\* single mask call is passed; the only files a step creates or changes
\* are clipped.tif and clipped_4326.tif.
C6_InputsReadOnly ==
    /\ [](C6_State)
    /\ [][/\ rasters'["example.tif"] = rasters["example.tif"]
          /\ vectors' = vectors
          /\ \A file \in DOMAIN rasters :
                rasters'[file] # rasters[file]
                   => file \in {"clipped.tif", "clipped_4326.tif"}]_vars

\* C6 witness: the whole pipeline ran and both outputs were written.
C6_Witness ==
    /\ pc = "done"
    /\ maskRet # NoMaskRet
    /\ Complete("clipped.tif")
    /\ Complete("clipped_4326.tif")

\* The loop of cell 10 has been left.
LoopLeft == pc \in {"exit_reprojected", "open_reproj", "show_reproj", "done"}

\* C9: the i-th reproject call reads band i of clipped_img and fills band
\* i of reprojected, and is made while reprojected is open; there are
\* never more calls than clipped_img has bands, and when the loop has been
\* left there were exactly that many; the destination then holds the bands
\* 1..count, count being the number of bands of example.tif.
C9_State ==
    /\ Len(reprojCalls) <= handles["clipped_img"].meta.count
    /\ \A i \in 1 .. Len(reprojCalls) :
          /\ reprojCalls[i].source = Band("clipped_img", i)
          /\ reprojCalls[i].destination = Band("reprojected", i)
    /\ pc \in {"for_range", "for_next", "reproject"}
          => handles["reprojected"].state = "open"
    /\ LoopLeft =>
          /\ Len(reprojCalls) = handles["clipped_img"].meta.count
          /\ rasters["clipped_4326.tif"].meta.count = SourceMeta.count
          /\ rasters["clipped_4326.tif"].bands = 1 .. SourceMeta.count

\* C9: the above in every state; a reproject call is made only with the
\* destination handle open; and the loop ends: every run of the notebook
\* reaches its last cell's end or an uncaught exception.
C9_LoopReprojectsEveryBand ==
    /\ [](C9_State)
    /\ [][reprojCalls' # reprojCalls
             => /\ handles["reprojected"].state = "open"
                /\ Len(reprojCalls') = Len(reprojCalls) + 1]_vars
    /\ <>(pc \in {"done", "aborted"})

\* C9 witness: the loop was left after four bands were reprojected.
C9_Witness == LoopLeft /\ Len(reprojCalls) = 4

\* A kernel runs the statement that is next: the run does not stop while
\* a statement is left.
SpecClipFair == SpecClip /\ WF_vars(NextClip)

\* C7: the world coordinate looked up lies Offset east and Offset south of
\* the upper-left corner, and for a raster larger than Offset in both
\* directions the row and column found lie inside the grid.
C7_PixelEastAndSouth ==
    LET m == handles["np_satdat"].meta
        b == Bounds(m)
    IN /\ npc \in {"index", "print_pixel", "done"} =>
             /\ nb.x_coord = b.left + Offset
             /\ nb.y_coord = b.top - Offset
       /\ (/\ npc \in {"print_pixel", "done"}
           /\ b.right - b.left > Offset
           /\ b.top - b.bottom > Offset) =>
             /\ 0 <= nb.row /\ nb.row < m.height
             /\ 0 <= nb.col /\ nb.col < m.width

\* C8: the value printed as width is the number of pixel columns and the
\* value printed as height is the number of pixel rows.
C8_WidthIsColumns ==
    rd.printed # <<>> =>
        /\ rd.printed[1].width = handles["rd_satdat"].meta.width
        /\ rd.printed[1].height = handles["rd_satdat"].meta.height

====
